---- MODULE Spec2Model ----
(***************************************************************************)
(* A model of the two source files of the image-classification harness:    *)
(*   - src/datasets/load_dataset.py : the dataset dispatcher load_dataset  *)
(*   - src/test.py                  : the test driver script and the       *)
(*                                    Lightning adapter class Model        *)
(*                                                                         *)
(* The driver is a straight-line script.  Its state (the module globals it *)
(* binds, the console, the figure, the image file, its position and exit   *)
(* status) is the record `run`.  Every statement of the script is an       *)
(* operator from a driver state to the next driver state; calls into       *)
(* external libraries take their outcome as the argument `o`.              *)
(*                                                                         *)
(* `twin` is a second execution of the same script, fed the same           *)
(* configuration and the same outcome of every external call, on a machine *)
(* whose torch.cuda.is_available() answers the opposite.  It is there for  *)
(* the statement that device availability does not change control flow.    *)
(*                                                                         *)
(* `ld` is one call of load_dataset(config).                               *)
(***************************************************************************)
EXTENDS Integers, Sequences, FiniteSets, TLC

VARIABLES run, twin, ld

vars == <<run, twin, ld>>

(***************************************************************************)
(* Bounds of the model.                                                    *)
(***************************************************************************)
\* the test loader yields at most MaxBatches batches
MaxBatches == 2
\* class indices that occur as targets / predictions are 0..MaxLabel
MaxLabel == 1

(***************************************************************************)
(* Program constants and input domains.                                    *)
(***************************************************************************)
\* test.py:43
num_classes == 10

\* the members of the enumeration Datasets that load_dataset compares with;
\* a member compares equal to the string of its name
Datasets == {"CIFAR10", "CIFAR100", "CIFAR10_128"}

\* the network identifiers the driver accepts
Networks == {"ResNet50"}

\* values of config.dataset / config.network a configuration file can hold
DatasetIds == Datasets \cup {"MNIST", "ImageNet"}
NetworkIds == Networks \cup {"VGG16"}

BatchSizes == {32, 64}
\* validation_size, in percent of the training set
ValidationSizes == {10, 20}

\* the configuration records parse_json can produce
Configs ==
    [dataset : DatasetIds, network : NetworkIds,
     batch_size : BatchSizes, validation_size : ValidationSizes,
     augment : BOOLEAN, include_top : BOOLEAN,
     seed : {42}, weights : {"IMAGENET1K_V2"},
     weights_dir : {"weights"}, weights_path : {"resnet50"}]

NoConfig == [dataset |-> "", network |-> "",
             batch_size |-> 0, validation_size |-> 0,
             augment |-> FALSE, include_top |-> FALSE,
             seed |-> 0, weights |-> "",
             weights_dir |-> "", weights_path |-> ""]

\* whether the string msg contains the string sub
Contains(msg, sub) ==
    \E i \in 1..(Len(msg) - Len(sub) + 1) : SubSeq(msg, i, i + Len(sub) - 1) = sub

(***************************************************************************)
(* src/datasets/load_dataset.py                                            *)
(***************************************************************************)
InvalidDatasetMsg == "[ERROR] Invalid dataset passed in configuration file. Exiting..."

\* a call of load_dataset that has not run yet
LdCall(c) ==
    [pc |-> "call", config |-> c, out |-> <<>>, exit_code |-> -1,
     Dataset |-> "unbound", dataset |-> [type |-> "none", args |-> <<>>]]

\* a Dataset(...) construction: the implementation class and its positional arguments
Construct(cls, c) ==
    [type |-> cls, args |-> <<c.batch_size, c.validation_size, c.augment>>]

\* lines 15-17: construct the imported class and return the object
LdReturn(l, cls) ==
    [l EXCEPT !.pc = "returned",
              !.Dataset = cls,
              !.dataset = Construct(cls, l.config)]

\* variant: the error path exits with code 0
LdExit_CodeZero(l) ==
    [l EXCEPT !.pc = "exited",
              !.out = Append(@, InvalidDatasetMsg),
              !.exit_code = 0]

\* lines 11-13: print the error and exit(1)
LdExit(l) ==
    [l EXCEPT !.pc = "exited",
              !.out = Append(@, InvalidDatasetMsg),
              !.exit_code = 1]

\* variant: the CIFAR100 branch imports the CIFAR10 implementation
load_dataset_CopyPaste(l) ==
    IF l.config.dataset = "CIFAR10" THEN LdReturn(l, "CIFAR10")
    ELSE IF l.config.dataset = "CIFAR100" THEN LdReturn(l, "CIFAR10")
    ELSE IF l.config.dataset = "CIFAR10_128" THEN LdReturn(l, "CIFAR10_128")
    ELSE LdExit(l)

load_dataset(l) ==
    IF l.config.dataset = "CIFAR10" THEN LdReturn(l, "CIFAR10")
    ELSE IF l.config.dataset = "CIFAR100" THEN LdReturn(l, "CIFAR100")
    ELSE IF l.config.dataset = "CIFAR10_128" THEN LdReturn(l, "CIFAR10_128")
    ELSE LdExit(l)

LdIdle == LdCall(NoConfig)

(***************************************************************************)
(* src/test.py: input domains of the external calls                        *)
(***************************************************************************)
\* the inputs of a batch; the network is a fixed deterministic stub on them
Inputs == {"img_a", "img_b"}
Labels == 0..MaxLabel

\* a batch is the pair (inputs, target)
Batches == Inputs \X Labels

\* the test loaders generate_dataset can return: up to MaxBatches batches
TestLoaders == UNION {[1..n -> Batches] : n \in 0..MaxBatches}

\* the class-name mapping generate_dataset returns: a dict, i.e. the
\* (name, index) items in insertion order
ClassMaps ==
    { << <<"airplane", 0>>, <<"automobile", 1>>, <<"bird", 2>> >>,
      << <<"bird", 2>>, <<"airplane", 0>>, <<"automobile", 1>> >> }

\* the outcome of an external call: whether it returned, and what
Returned == [ok |-> TRUE]
Raised == [ok |-> FALSE]
ParseOutcomes == {Raised} \cup {[ok |-> TRUE, config |-> c] : c \in Configs}
DatasetOutcomes ==
    {Raised} \cup {[ok |-> TRUE, test_loader |-> tl, classes |-> cm] :
                      tl \in TestLoaders, cm \in ClassMaps}
CallOutcomes == {Raised, Returned}

\* the network stub: the class index it predicts for the inputs of a batch
Forward(inputs) == IF inputs = "img_a" THEN 0 ELSE 1

\* nn.CrossEntropyLoss, abstracted to 0 for a correct prediction and 1 otherwise
CrossEntropyLoss(output, target) == IF output = target THEN 0 ELSE 1

(***************************************************************************)
(* src/test.py: the driver's state                                         *)
(***************************************************************************)
CudaMsg == "[INFO] CUDA is available! Training on GPU..."
CpuMsg == "[INFO] CUDA is not available. Training on CPU..."
DatasetErrMsg == "[ERROR] Currently only CIFAR10 dataset is supported. Exiting..."
NetworkErrMsg == "[ERROR] Currently only ResNet50 network is supported. Exiting..."

\* the keys of the MetricCollection, as written in Model.__init__
MetricNames == <<"accuracy", "precision", "recall", "auc">>
Accumulators == {MetricNames[i] : i \in 1..Len(MetricNames)} \cup {"confusion_matrix"}

NoNetwork == [include_top |-> FALSE, weights |-> "", num_classes |-> 0]
NoAxes == [data |-> <<>>, xticklabels |-> <<>>, yticklabels |-> <<>>,
           labelrotation |-> 0, xlabel |-> "", ylabel |-> "", title |-> ""]

\* no compute() has produced a value yet
NoValue == [none |-> TRUE]

\* the script before its first statement, on a machine with or without CUDA
DriverInit(cuda) ==
    [pc |-> "parse_json", status |-> "running", exit_code |-> -1, error |-> "",
     cuda |-> cuda, config |-> NoConfig, seed |-> 0,
     out |-> <<>>, trace |-> <<>>,
     generate_dataset |-> "unbound", num_classes |-> 0, network |-> "unbound",
     test_loader |-> <<>>, classes |-> <<>>,
     net |-> NoNetwork, adapter |-> FALSE, weights_path |-> "",
     batch_idx |-> 0, metrics |-> <<>>, confusion_matrix |-> <<>>,
     computes |-> [a \in Accumulators |-> 0],
     computed |-> [a \in Accumulators |-> NoValue],
     fig |-> "none", ax |-> NoAxes,
     png |-> [written |-> FALSE, ax |-> NoAxes]]

\* exit(code)
Exit(s, code) ==
    [s EXCEPT !.pc = "terminated", !.status = "exit", !.exit_code = code]

\* an exception nobody handles: a traceback and exit code 1
Unhandled(s, exc) ==
    [s EXCEPT !.pc = "terminated", !.status = "error", !.error = exc,
              !.exit_code = 1]

\* falling off the end of the script
Finished(s) ==
    [s EXCEPT !.pc = "terminated", !.status = "finished", !.exit_code = 0]

(***************************************************************************)
(* src/test.py: the statements of the script, in program order             *)
(***************************************************************************)
\* line 31: config = parse_json(args.config_path)
parse_json(s, o) ==
    IF o.ok
    THEN [s EXCEPT !.config = o.config, !.pc = "seed_everything"]
    ELSE Unhandled(s, "parse_json")

\* line 33: L.seed_everything(config.seed)
seed_everything(s) ==
    [s EXCEPT !.seed = s.config.seed,
              !.trace = Append(@, "seed_everything"),
              !.pc = "device_report"]

\* variant: a machine without CUDA is refused
device_report_RequiresCuda(s) ==
    IF s.cuda
    THEN [s EXCEPT !.out = Append(@, CudaMsg),
                   !.trace = Append(@, "device_report"),
                   !.pc = "dataset_selection"]
    ELSE Exit([s EXCEPT !.out = Append(@, CpuMsg),
                        !.trace = Append(@, "device_report")], 1)

\* lines 34-37: report whether CUDA is available
device_report(s) ==
    [s EXCEPT !.out = Append(@, IF s.cuda THEN CudaMsg ELSE CpuMsg),
              !.trace = Append(@, "device_report"),
              !.pc = "dataset_selection"]

\* variant: the driver accepts every member of the enumeration Datasets
dataset_selection_AnyKnown(s) ==
    IF s.config.dataset \in Datasets
    THEN [s EXCEPT !.generate_dataset = "generate_" \o s.config.dataset,
                   !.num_classes = num_classes,
                   !.pc = "generate_dataset"]
    ELSE Exit([s EXCEPT !.out = Append(@, DatasetErrMsg)], 1)

\* lines 40-46: select the dataset's construction function
dataset_selection(s) ==
    IF s.config.dataset = "CIFAR10"
    THEN [s EXCEPT !.generate_dataset = "generate_CIFAR10",
                   !.num_classes = num_classes,
                   !.pc = "generate_dataset"]
    ELSE Exit([s EXCEPT !.out = Append(@, DatasetErrMsg)], 1)

\* lines 48-52: build the data loaders and the class-name mapping
generate_dataset(s, o) ==
    IF o.ok
    THEN [s EXCEPT !.test_loader = o.test_loader,
                   !.classes = o.classes,
                   !.trace = Append(@, "generate_dataset"),
                   !.pc = "network_selection"]
    ELSE Unhandled(s, "generate_dataset")

\* variant: the else branch exits as its message announces
network_selection_Exits(s) ==
    IF s.config.network = "ResNet50"
    THEN [s EXCEPT !.network = "ResNet50", !.pc = "build_network"]
    ELSE Exit([s EXCEPT !.out = Append(@, NetworkErrMsg)], 1)

\* lines 55-58: select the network constructor
network_selection(s) ==
    IF s.config.network = "ResNet50"
    THEN [s EXCEPT !.network = "ResNet50", !.pc = "build_network"]
    ELSE [s EXCEPT !.out = Append(@, NetworkErrMsg), !.pc = "build_network"]

\* lines 60-62: model = network(include_top=..., weights=..., num_classes=...)
build_network(s) ==
    IF s.network = "unbound"
    THEN Unhandled(s, "NameError")
    ELSE [s EXCEPT !.net = [include_top |-> s.config.include_top,
                            weights |-> s.config.weights,
                            num_classes |-> s.num_classes],
                   !.trace = Append(@, "network"),
                   !.pc = "load_from_checkpoint"]

\* lines 67-86: Model.__init__ creates the two empty accumulators
Model_init(s) ==
    [s EXCEPT !.adapter = TRUE,
              !.metrics = <<>>,
              !.confusion_matrix = <<>>,
              !.trace = Append(@, "Model.__init__")]

\* line 101: the checkpoint's path
WeightsPath(c) == c.weights_dir \o "/" \o c.weights_path \o ".ckpt"

\* variant: the adapter is constructed directly, no checkpoint is read
load_from_checkpoint_NoCheckpoint(s, o) ==
    LET p == [s EXCEPT !.weights_path = WeightsPath(s.config)] IN
    IF o.ok
    THEN [Model_init(p) EXCEPT !.pc = "trainer_test"]
    ELSE Unhandled(p, "load_from_checkpoint")

\* lines 100-102: Model.load_from_checkpoint(weights_path, model=..., criterion=...)
load_from_checkpoint(s, o) ==
    LET p == [s EXCEPT !.weights_path = WeightsPath(s.config)] IN
    IF o.ok
    THEN [Model_init(p) EXCEPT !.trace = Append(@, "load_from_checkpoint"),
                               !.pc = "trainer_test"]
    ELSE Unhandled(p, "load_from_checkpoint")

\* lines 104-105: trainer = L.Trainer(); trainer.test(...) enters its loop
trainer_test(s, o) ==
    IF o.ok
    THEN [s EXCEPT !.trace = Append(@, "trainer.test"), !.pc = "test_loop"]
    ELSE Unhandled(s, "trainer.test")

\* lines 88-92: Model.step returns (loss, output, target)
step(s, batch) ==
    LET inputs == batch[1]
        target == batch[2]
        output == Forward(inputs)
        loss == CrossEntropyLoss(output, target)
    IN  <<loss, output, target>>

\* Metric.update(output, target): one more observation in the accumulator
Update(acc, output, target) == Append(acc, <<output, target>>)

\* variant: the confusion matrix is fed the loss in place of the output
test_step_LossToMatrix(s, batch, batch_idx) ==
    LET r == step(s, batch)
        loss == r[1]
        output == r[2]
        target == r[3]
    IN  [s EXCEPT !.metrics = Update(@, output, target),
                  !.confusion_matrix = Update(@, loss, target)]

\* lines 94-97: Model.test_step
test_step(s, batch, batch_idx) ==
    LET r == step(s, batch)
        output == r[2]
        target == r[3]
    IN  [s EXCEPT !.metrics = Update(@, output, target),
                  !.confusion_matrix = Update(@, output, target)]

\* line 105: the test loop hands the next batch of the loader to test_step
test_loop_batch(s, o) ==
    IF o.ok
    THEN [test_step(s, s.test_loader[s.batch_idx + 1], s.batch_idx)
            EXCEPT !.batch_idx = @ + 1]
    ELSE Unhandled(s, "trainer.test")

\* variant: the accumulators are reset when the test epoch ends
test_loop_return_Reset(s) ==
    [s EXCEPT !.metrics = <<>>, !.confusion_matrix = <<>>,
              !.pc = "print_metrics"]

\* line 105: the loader is exhausted and trainer.test returns
test_loop_return(s) == [s EXCEPT !.pc = "print_metrics"]

\* Metric.compute() of a classification metric, abstracted to the statistic it
\* is computed from: the number of observations and of correct predictions
MetricCompute(name, obs) ==
    [metric |-> name, n |-> Len(obs),
     correct |-> Cardinality({i \in 1..Len(obs) : obs[i][1] = obs[i][2]})]

\* ConfusionMatrix.compute(): entry [target, prediction] counts the observations
ConfusionMatrixCompute(obs) ==
    [matrix |-> [t \in Labels, q \in Labels |->
                    Cardinality({i \in 1..Len(obs) : obs[i] = <<q, t>>})]]

\* line 108: compute one metric and print "<metric_name>: <value>"
print_metric(s, name) ==
    LET value == MetricCompute(name, s.metrics) IN
    [s EXCEPT !.computes[name] = @ + 1,
              !.computed[name] = value,
              !.out = Append(@, name \o ": " \o ToString(value))]

\* lines 107-108: the loop over model.metrics.items(), from the i-th item on
RECURSIVE PrintFrom(_, _)
PrintFrom(s, i) ==
    IF i > Len(MetricNames) THEN s
    ELSE PrintFrom(print_metric(s, MetricNames[i]), i + 1)

print_metrics(s) ==
    [PrintFrom(s, 1) EXCEPT !.trace = Append(@, "print_metrics"),
                            !.pc = "heatmap"]

\* variant: the class names ordered by class index
Keys_ByIndex(classes) ==
    LET ByRank(i) ==
            CHOOSE j \in 1..Len(classes) :
                Cardinality({k \in 1..Len(classes) : classes[k][2] < classes[j][2]}) = i - 1
    IN  [i \in 1..Len(classes) |-> classes[ByRank(i)][1]]

\* line 111: list(classes.keys())
Keys(classes) == [i \in 1..Len(classes) |-> classes[i][1]]

\* lines 110-124: open the figure and draw the annotated heatmap on its axes
heatmap(s) ==
    LET class_names == Keys(s.classes) IN
    [s EXCEPT !.fig = "open",
              !.computes["confusion_matrix"] = @ + 1,
              !.computed["confusion_matrix"] =
                  ConfusionMatrixCompute(s.confusion_matrix),
              !.ax = [data |-> ConfusionMatrixCompute(s.confusion_matrix),
                      xticklabels |-> class_names,
                      yticklabels |-> class_names,
                      labelrotation |-> 45,
                      xlabel |-> "Predicted Labels",
                      ylabel |-> "True Labels",
                      title |-> "Confusion Matrix"],
              !.trace = Append(@, "heatmap"),
              !.pc = "savefig"]

\* line 127: plt.savefig("confusion_matrix.png") writes the current figure
savefig(s) ==
    [s EXCEPT !.png = [written |-> TRUE,
                       ax |-> IF s.fig = "open" THEN s.ax ELSE NoAxes],
              !.trace = Append(@, "savefig"),
              !.pc = "close"]

\* line 128: plt.close(fig), the last statement of the script
close(s) ==
    Finished([s EXCEPT !.fig = "closed", !.trace = Append(@, "close")])

\* the statement at s.pc, given the outcome o of the external call it makes
DriverStep(s, o) ==
    CASE s.pc = "parse_json" -> parse_json(s, o)
      [] s.pc = "seed_everything" -> seed_everything(s)
      [] s.pc = "device_report" -> device_report(s)
      [] s.pc = "dataset_selection" -> dataset_selection(s)
      [] s.pc = "generate_dataset" -> generate_dataset(s, o)
      [] s.pc = "network_selection" -> network_selection(s)
      [] s.pc = "build_network" -> build_network(s)
      [] s.pc = "load_from_checkpoint" -> load_from_checkpoint(s, o)
      [] s.pc = "trainer_test" -> trainer_test(s, o)
      [] s.pc = "test_loop" ->
            IF s.batch_idx < Len(s.test_loader)
            THEN test_loop_batch(s, o)
            ELSE test_loop_return(s)
      [] s.pc = "print_metrics" -> print_metrics(s)
      [] s.pc = "heatmap" -> heatmap(s)
      [] s.pc = "savefig" -> savefig(s)
      [] s.pc = "close" -> close(s)
      [] OTHER -> s

(***************************************************************************)
(* The driver: one action per statement.  The twin takes the statement at  *)
(* its own position with the same outcome of the external call.            *)
(***************************************************************************)
Init ==
    /\ \E cuda \in BOOLEAN :
          /\ run = DriverInit(cuda)
          /\ twin = DriverInit(~cuda)
    /\ ld = LdIdle

ParseJson ==
    /\ run.pc = "parse_json"
    /\ \E o \in ParseOutcomes :
          /\ run' = parse_json(run, o)
          /\ twin' = DriverStep(twin, o)
    /\ UNCHANGED ld

SeedEverything ==
    /\ run.pc = "seed_everything"
    /\ run' = seed_everything(run)
    /\ twin' = DriverStep(twin, Returned)
    /\ UNCHANGED ld

DeviceReport ==
    /\ run.pc = "device_report"
    /\ run' = device_report(run)
    /\ twin' = DriverStep(twin, Returned)
    /\ UNCHANGED ld

DatasetSelection ==
    /\ run.pc = "dataset_selection"
    /\ run' = dataset_selection(run)
    /\ twin' = DriverStep(twin, Returned)
    /\ UNCHANGED ld

GenerateDataset ==
    /\ run.pc = "generate_dataset"
    /\ \E o \in DatasetOutcomes :
          /\ run' = generate_dataset(run, o)
          /\ twin' = DriverStep(twin, o)
    /\ UNCHANGED ld

NetworkSelection ==
    /\ run.pc = "network_selection"
    /\ run' = network_selection(run)
    /\ twin' = DriverStep(twin, Returned)
    /\ UNCHANGED ld

BuildNetwork ==
    /\ run.pc = "build_network"
    /\ run' = build_network(run)
    /\ twin' = DriverStep(twin, Returned)
    /\ UNCHANGED ld

LoadFromCheckpoint ==
    /\ run.pc = "load_from_checkpoint"
    /\ \E o \in CallOutcomes :
          /\ run' = load_from_checkpoint(run, o)
          /\ twin' = DriverStep(twin, o)
    /\ UNCHANGED ld

TrainerTest ==
    /\ run.pc = "trainer_test"
    /\ \E o \in CallOutcomes :
          /\ run' = trainer_test(run, o)
          /\ twin' = DriverStep(twin, o)
    /\ UNCHANGED ld

TestLoopBatch ==
    /\ run.pc = "test_loop"
    /\ run.batch_idx < Len(run.test_loader)
    /\ \E o \in CallOutcomes :
          /\ run' = test_loop_batch(run, o)
          /\ twin' = DriverStep(twin, o)
    /\ UNCHANGED ld

TestLoopReturn ==
    /\ run.pc = "test_loop"
    /\ run.batch_idx >= Len(run.test_loader)
    /\ run' = test_loop_return(run)
    /\ twin' = DriverStep(twin, Returned)
    /\ UNCHANGED ld

PrintMetrics ==
    /\ run.pc = "print_metrics"
    /\ run' = print_metrics(run)
    /\ twin' = DriverStep(twin, Returned)
    /\ UNCHANGED ld

Heatmap ==
    /\ run.pc = "heatmap"
    /\ run' = heatmap(run)
    /\ twin' = DriverStep(twin, Returned)
    /\ UNCHANGED ld

SaveFig ==
    /\ run.pc = "savefig"
    /\ run' = savefig(run)
    /\ twin' = DriverStep(twin, Returned)
    /\ UNCHANGED ld

Close ==
    /\ run.pc = "close"
    /\ run' = close(run)
    /\ twin' = DriverStep(twin, Returned)
    /\ UNCHANGED ld

Next ==
    \/ ParseJson
    \/ SeedEverything
    \/ DeviceReport
    \/ DatasetSelection
    \/ GenerateDataset
    \/ NetworkSelection
    \/ BuildNetwork
    \/ LoadFromCheckpoint
    \/ TrainerTest
    \/ TestLoopBatch
    \/ TestLoopReturn
    \/ PrintMetrics
    \/ Heatmap
    \/ SaveFig
    \/ Close

Spec == Init /\ [][Next]_vars

(***************************************************************************)
(* One call of load_dataset, for every configuration.                      *)
(***************************************************************************)
InitLoad ==
    /\ run = DriverInit(TRUE)
    /\ twin = DriverInit(FALSE)
    /\ ld \in {LdCall(c) : c \in Configs}

LoadDataset ==
    /\ ld.pc = "call"
    /\ ld' = load_dataset(ld)
    /\ UNCHANGED <<run, twin>>

NextLoad == LoadDataset

SpecLoad == InitLoad /\ [][NextLoad]_vars

(***************************************************************************)
(* Vocabulary of the properties.                                           *)
(***************************************************************************)
InTrace(s, name) == \E i \in 1..Len(s.trace) : s.trace[i] = name
Printed(s, msg) == \E i \in 1..Len(s.out) : s.out[i] = msg
IsPrefix(p, q) == Len(p) <= Len(q) /\ SubSeq(q, 1, Len(p)) = p

\* the dataset selection of lines 40-46 has been executed
DatasetChecked(s) == InTrace(s, "device_report") /\ s.pc # "dataset_selection"
\* the network selection of lines 55-58 has been executed
NetworkChecked(s) == InTrace(s, "generate_dataset") /\ s.pc # "network_selection"
\* the process ended by exit(1) before any data loader was built
ExitedAtDatasetSelection(s) ==
    /\ s.status = "exit"
    /\ s.exit_code = 1
    /\ s.pc = "terminated"
    /\ ~InTrace(s, "generate_dataset")

\* the driver steps that follow the network selection
LaterSteps ==
    {"network", "Model.__init__", "load_from_checkpoint", "trainer.test",
     "print_metrics", "heatmap", "savefig", "close"}

\* the (network output, target) pairs of the first k batches of the test loader
Observed(s, k) ==
    [i \in 1..k |-> <<Forward(s.test_loader[i][1]), s.test_loader[i][2]>>]

\* the console output without the device-availability message
WithoutDeviceMsg(s) == SelectSeq(s.out, LAMBDA m : m \notin {CudaMsg, CpuMsg})

(***************************************************************************)
(* load_dataset                                                            *)
(***************************************************************************)
\* C1: for a configuration whose dataset is CIFAR10, CIFAR100 or CIFAR10_128,
\* load_dataset returns without terminating the process, and the object it
\* returns is an instance of the implementation of the same name, constructed
\* with exactly (config.batch_size, config.validation_size, config.augment).
C1_ReturnsNamedImplementation ==
    (ld.pc # "call" /\ ld.config.dataset \in Datasets) =>
        /\ ld.pc = "returned"
        /\ ld.exit_code = -1
        /\ ld.dataset.type = ld.config.dataset
        /\ Len(ld.dataset.args) = 3
        /\ ld.dataset.args[1] = ld.config.batch_size
        /\ ld.dataset.args[2] = ld.config.validation_size
        /\ ld.dataset.args[3] = ld.config.augment

C1_Witness ==
    /\ ld.pc = "returned"
    /\ ld.config.dataset = "CIFAR10_128"
    /\ ld.dataset = [type |-> "CIFAR10_128", args |-> <<64, 20, TRUE>>]

\* C2: for a configuration whose dataset is outside the enumeration,
\* load_dataset prints a message containing "Invalid dataset" and terminates
\* the process with exit code exactly 1; no implementation is constructed and
\* nothing is returned.
C2_InvalidDatasetExitsOne ==
    (ld.pc # "call" /\ ld.config.dataset \notin Datasets) =>
        /\ ld.pc = "exited"
        /\ ld.exit_code = 1
        /\ Len(ld.out) = 1
        /\ Contains(ld.out[1], "Invalid dataset")
        /\ ld.Dataset = "unbound"
        /\ ld.dataset.type = "none"

C2_Witness ==
    /\ ld.pc = "exited"
    /\ ld.config.dataset = "MNIST"
    /\ ld.exit_code = 1

(***************************************************************************)
(* The driver's selections                                                 *)
(***************************************************************************)
\* C3: whenever the driver has detected a dataset or network identifier outside
\* its enumeration, the process has terminated at that point with a non-zero
\* exit, no later driver step has been attempted and no default has been
\* substituted.
C3_FailFastOnInvalidIdentifier ==
    /\ (DatasetChecked(run) /\ run.config.dataset \notin Datasets) =>
          /\ ExitedAtDatasetSelection(run)
          /\ run.generate_dataset = "unbound"
    /\ (NetworkChecked(run) /\ run.config.network \notin Networks) =>
          /\ run.pc = "terminated"
          /\ run.status = "exit"
          /\ run.exit_code # 0
          /\ run.network = "unbound"
          /\ \A name \in LaterSteps : ~InTrace(run, name)

\* C4: in a run that passed dataset selection with a network other than
\* "ResNet50", the error message is printed, the process does not exit at the
\* selection, and the next statement fails with an unbound-name error; the
\* adapter, the checkpoint load and the test loop are never reached.
C4_InvalidNetworkFailsLater ==
    (NetworkChecked(run) /\ run.config.network # "ResNet50") =>
        /\ Printed(run, NetworkErrMsg)
        /\ run.network = "unbound"
        /\ run.status # "exit"
        /\ \/ run.pc = "build_network" /\ run.status = "running"
           \/ /\ run.pc = "terminated"
              /\ run.status = "error"
              /\ run.error = "NameError"
              /\ run.exit_code = 1
        /\ ~run.adapter
        /\ \A name \in LaterSteps : ~InTrace(run, name)

C4_Witness ==
    /\ run.config.network = "VGG16"
    /\ Printed(run, NetworkErrMsg)
    /\ run.error = "NameError"

\* C6 as stated: once dataset selection has run, the driver has terminated with
\* exit code 1 there if and only if config.dataset is outside
\* {CIFAR10, CIFAR100, CIFAR10_128}.
C6_ExitIffOutsideEnumeration ==
    DatasetChecked(run) =>
        (ExitedAtDatasetSelection(run) <=> run.config.dataset \notin Datasets)

\* C6, amended: once dataset selection has run, the driver has terminated with
\* exit code 1 there if and only if config.dataset is not "CIFAR10"; for
\* "CIFAR10" alone it selects generate_CIFAR10 with ten classes and goes on to
\* build the data loaders.
C6_ExitIffNotCIFAR10 ==
    DatasetChecked(run) =>
        /\ ExitedAtDatasetSelection(run) <=> run.config.dataset # "CIFAR10"
        /\ run.config.dataset = "CIFAR10" =>
              /\ run.generate_dataset = "generate_CIFAR10"
              /\ run.num_classes = 10
              /\ \/ run.pc = "generate_dataset"
                 \/ InTrace(run, "generate_dataset")
                 \/ run.error = "generate_dataset"
        /\ run.config.dataset # "CIFAR10" =>
              /\ run.generate_dataset = "unbound"
              /\ Printed(run, DatasetErrMsg)

C6_Witness ==
    /\ run.config.dataset = "CIFAR100"
    /\ ExitedAtDatasetSelection(run)

(***************************************************************************)
(* The driver's order of steps                                             *)
(***************************************************************************)
\* the steps of a complete run, in the order the script performs them
StepOrder ==
    <<"seed_everything", "device_report", "generate_dataset", "network",
      "Model.__init__", "load_from_checkpoint", "trainer.test",
      "print_metrics", "heatmap", "savefig", "close">>

\* C5: the steps a run has performed are always an initial part of one fixed
\* order (seed, device report, data loaders, network, adapter, weights from
\* {weights_dir}/{weights_path}.ckpt, test loop, metric printing, confusion
\* matrix rendering, save, close), and a run that reaches the end has performed
\* every one of them exactly once in that order.
C5_FixedStepOrder ==
    /\ IsPrefix(run.trace, StepOrder)
    /\ InTrace(run, "load_from_checkpoint") =>
          run.weights_path = "weights/resnet50.ckpt"
    /\ run.status = "finished" =>
          /\ run.trace = StepOrder
          /\ run.seed = run.config.seed
          /\ run.batch_idx = Len(run.test_loader)

C5_Witness ==
    /\ run.status = "finished"
    /\ run.trace = StepOrder
    /\ run.batch_idx = 2

(***************************************************************************)
(* The adapter's accumulators                                              *)
(***************************************************************************)
\* C7: after N calls of test_step both accumulators hold exactly N
\* observations, the (network output, target) pairs of the first N batches in
\* batch order, the same in both and independent of the loss; a following
\* compute reflects exactly the observations of all batches.
C7_OneObservationPerBatch ==
    run.adapter =>
        /\ run.metrics = Observed(run, run.batch_idx)
        /\ run.confusion_matrix = Observed(run, run.batch_idx)
        /\ \A i \in 1..Len(MetricNames) :
              run.computes[MetricNames[i]] > 0 =>
                 run.computed[MetricNames[i]] =
                    MetricCompute(MetricNames[i],
                                  Observed(run, Len(run.test_loader)))
        /\ run.computes["confusion_matrix"] > 0 =>
              run.computed["confusion_matrix"] =
                 ConfusionMatrixCompute(Observed(run, Len(run.test_loader)))

C7_Witness ==
    /\ run.batch_idx = 2
    /\ Len(run.metrics) = 2
    /\ Len(run.confusion_matrix) = 2
    /\ run.metrics[1] # run.metrics[2]
    /\ CrossEntropyLoss(run.metrics[1][1], run.metrics[1][2]) = 1
    /\ run.computes["confusion_matrix"] = 1
    /\ run.computed["accuracy"].n = 2

\* what one step of the driver may do to the accumulators
C8_Step ==
    /\ (run'.metrics # run.metrics \/ run'.confusion_matrix # run.confusion_matrix) =>
          /\ run.pc = "test_loop"
          /\ run.batch_idx < Len(run.test_loader)
          /\ run'.batch_idx = run.batch_idx + 1
          /\ Len(run'.metrics) = Len(run.metrics) + 1
          /\ Len(run'.confusion_matrix) = Len(run.confusion_matrix) + 1
          /\ \A a \in Accumulators : run.computes[a] = 0 /\ run'.computes[a] = 0
    /\ Len(run'.metrics) >= Len(run.metrics)
    /\ Len(run'.confusion_matrix) >= Len(run.confusion_matrix)
    /\ \A a \in Accumulators :
          /\ run'.computes[a] >= run.computes[a]
          /\ run'.computes[a] <= 1
          /\ run'.computes[a] > run.computes[a] =>
                /\ InTrace(run, "trainer.test")
                /\ run.pc \in {"print_metrics", "heatmap"}
                /\ run.batch_idx = Len(run.test_loader)
    /\ run'.status = "finished" =>
          \A a \in Accumulators : run'.computes[a] = 1

\* C8: the accumulators change only by a test_step of the test loop, one batch
\* at a time, and never shrink; every accumulator is read by compute at most
\* once, only after the test loop has returned and never before a later update,
\* and exactly once in a run that reaches the end.
C8_UpdatesThenOneCompute == [][C8_Step]_vars

C8_Witness ==
    /\ run.status = "finished"
    /\ Len(run.metrics) = 2
    /\ \A a \in Accumulators : run.computes[a] = 1

C10_DeviceDoesNotChangeControlFlow ==
    /\ run.cuda # twin.cuda
    /\ run.pc = twin.pc
    /\ run.trace = twin.trace
    /\ run.status = twin.status
    /\ run.exit_code = twin.exit_code
    /\ run.error = twin.error
    /\ WithoutDeviceMsg(run) = WithoutDeviceMsg(twin)
    /\ Len(run.out) = Len(twin.out)
    /\ [run EXCEPT !.cuda = TRUE, !.out = <<>>] = [twin EXCEPT !.cuda = TRUE, !.out = <<>>]
    /\ \A s \in {run, twin} :
          InTrace(s, "device_report") =>
              /\ Printed(s, IF s.cuda THEN CudaMsg ELSE CpuMsg)
              /\ ~Printed(s, IF s.cuda THEN CpuMsg ELSE CudaMsg)

C10_Witness ==
    /\ ~run.cuda
    /\ twin.cuda
    /\ run.status = "finished"
    /\ twin.status = "finished"
    /\ Printed(run, CpuMsg)
    /\ Printed(twin, CudaMsg)

====
